---- MODULE Spec2Model ----
(***************************************************************************)
(* Atlas Storage: the middleware chain of internal/server/server.go        *)
(* (authMiddleware -> mimeMiddleware -> quotaMiddleware -> WebDAV engine)  *)
(* and the credential store of pkg/user/user.go.                           *)
(*                                                                         *)
(* Response bodies are sequences of one-character strings; usernames,      *)
(* passwords and the strings of the credential file are sequences of byte  *)
(* values.  uint64 arithmetic is modelled at a reduced width (UintBits).   *)
(***************************************************************************)
EXTENDS Integers, Sequences, FiniteSets, TLC

VARIABLES
    quotaBytes, \* Server.QuotaBytes
    users,      \* Store.Users of the store in use (username -> *User)
    file,       \* content of the credential file, or NoFile
    pc,         \* position of the request in flight in the middleware chain
    req,        \* the request in flight: method, path, Authorization header
    w,          \* the http.ResponseWriter of the request (what the client gets)
    rb,         \* the responseBuffer of quotaMiddleware
    eng,        \* what the Protocol Engine has produced so far for this request
    usage,      \* what the Usage Provider returned for this request
    ran,        \* the stages that have run for this request, and Authenticate's answer
    op,         \* the last store operation, its arguments and its result
    before,     \* Store.Users as it was when the last store operation started
    mu,         \* Store.mu, the sync.RWMutex of the shared store
    thr,        \* the goroutines calling the shared store: operation, position, locals
    cli,        \* the user-management commands running as separate processes
    fs          \* the data directory getDirUsedBytes walks, and what the walk returned

vars == <<quotaBytes, users, file, pc, req, w, rb, eng, usage, ran, op, before, mu, thr, cli, fs>>

(***************************************************************************)
(* Bounds of the model.                                                    *)
(***************************************************************************)
UintBits == 4        \* width of the modelled uint64
MaxEngineCalls == 3  \* WriteHeader/Write calls the engine makes per request
MaxStoreOps == 3     \* store operations per run of the store specification
NumSalts == 2        \* distinct salts bcrypt may draw

UintMod == 2 ^ UintBits
Uint == 0 .. (UintMod - 1)

Min(a, b) == IF a < b THEN a ELSE b

(***************************************************************************)
(* Strings.                                                                *)
(***************************************************************************)
Lower == {"a","b","c","d","e","f","g","h","i","j","k","l","m",
          "n","o","p","q","r","s","t","u","v","w","x","y","z"}
Upper == {"A","B","C","D","E","F","G","H","I","J","K","L","M",
          "N","O","P","Q","R","S","T","U","V","W","X","Y","Z"}
Digit == {"0","1","2","3","4","5","6","7","8","9"}

\* s has the literal lit at position i (1-based)
HasAt(s, i, lit) ==
    /\ i >= 1
    /\ i + Len(lit) - 1 <= Len(s)
    /\ \A k \in 1 .. Len(lit) : s[i + k - 1] = lit[k]

DigitChar(d) == CASE d = 0 -> "0" [] d = 1 -> "1" [] d = 2 -> "2" [] d = 3 -> "3"
                  [] d = 4 -> "4" [] d = 5 -> "5" [] d = 6 -> "6" [] d = 7 -> "7"
                  [] d = 8 -> "8" [] d = 9 -> "9"

DigitValue(c) == CHOOSE d \in 0 .. 9 : DigitChar(d) = c

\* strconv.Itoa / fmt's %d of a non-negative number: its decimal digits
RECURSIVE Itoa(_)
Itoa(n) == IF n < 10 THEN <<DigitChar(n)>> ELSE Itoa(n \div 10) \o <<DigitChar(n % 10)>>

\* the number a sequence of decimal digits denotes (what the client parses)
RECURSIVE Atoi(_)
Atoi(s) == IF Len(s) = 0 THEN 0
           ELSE 10 * Atoi(SubSeq(s, 1, Len(s) - 1)) + DigitValue(s[Len(s)])

(***************************************************************************)
(* quotaMiddleware: the two regular expressions and the splice.            *)
(***************************************************************************)
\* [a-zA-Z0-9_:] of propEndRegex
PropClass == Lower \cup Upper \cup Digit \cup {"_", ":"}

\* [a-zA-Z0-9_] of nsRegex
NsClass == Lower \cup Upper \cup Digit \cup {"_"}

\* (</[a-zA-Z0-9_:]*prop>) matches s starting at position i
propEndMatchAt(s, i) ==
    /\ HasAt(s, i, <<"<", "/">>)
    /\ \E j \in (i + 2) .. (Len(s) - 4) :
          /\ \A k \in (i + 2) .. (j - 1) : s[k] \in PropClass
          /\ HasAt(s, j, <<"p", "r", "o", "p", ">">>)

\* propEndRegex as it would be were the last match taken instead of the first
propEndRegexLast(s) ==
    IF \E i \in 1 .. Len(s) : propEndMatchAt(s, i)
    THEN CHOOSE i \in 1 .. Len(s) :
            /\ propEndMatchAt(s, i)
            /\ \A h \in (i + 1) .. Len(s) : ~propEndMatchAt(s, h)
    ELSE 0

\* propEndRegex.FindStringIndex(bodyStr): loc[0] of the leftmost match as a
\* 1-based position, 0 for a nil loc
propEndRegex(s) ==
    IF \E i \in 1 .. Len(s) : propEndMatchAt(s, i)
    THEN CHOOSE i \in 1 .. Len(s) :
            /\ propEndMatchAt(s, i)
            /\ \A h \in 1 .. (i - 1) : ~propEndMatchAt(s, h)
    ELSE 0

\* xmlns:([a-zA-Z0-9_]+)="DAV:" matches s at position i with the group ending at j-1
nsMatchAt(s, i, j) ==
    /\ HasAt(s, i, <<"x", "m", "l", "n", "s", ":">>)
    /\ j > i + 6
    /\ \A k \in (i + 6) .. (j - 1) : s[k] \in NsClass
    /\ HasAt(s, j, <<"=", "\"", "D", "A", "V", ":", "\"">>)

nsMatches(s, i) == \E j \in (i + 7) .. Len(s) : nsMatchAt(s, i, j)

\* nsRegex.FindStringSubmatch(bodyStr): match[1] of the leftmost match, or the
\* default prefix "D" when there is no match
nsPrefix(s) ==
    IF \E i \in 1 .. Len(s) : nsMatches(s, i)
    THEN LET i == CHOOSE i \in 1 .. Len(s) :
                     /\ nsMatches(s, i)
                     /\ \A h \in 1 .. (i - 1) : ~nsMatches(s, h)
             j == CHOOSE j \in (i + 7) .. Len(s) : nsMatchAt(s, i, j)
         IN  SubSeq(s, i + 6, j - 1)
    ELSE <<"D">>

\* fmt.Sprintf("<%s:quota-available-bytes>%d</%s:quota-available-bytes>
\*              <%s:quota-used-bytes>%d</%s:quota-used-bytes>", ...)
quotaXML(prefix, free, used) ==
    <<"<">> \o prefix \o <<":", "q", "u", "o", "t", "a", "-", "a", "v", "a", "i", "l", "a", "b", "l", "e", "-", "b", "y", "t", "e", "s", ">">> \o Itoa(free)
      \o <<"<", "/">> \o prefix \o <<":", "q", "u", "o", "t", "a", "-", "a", "v", "a", "i", "l", "a", "b", "l", "e", "-", "b", "y", "t", "e", "s", ">">>
      \o <<"<">> \o prefix \o <<":", "q", "u", "o", "t", "a", "-", "u", "s", "e", "d", "-", "b", "y", "t", "e", "s", ">">> \o Itoa(used)
      \o <<"<", "/">> \o prefix \o <<":", "q", "u", "o", "t", "a", "-", "u", "s", "e", "d", "-", "b", "y", "t", "e", "s", ">">>

\* bodyStr[:start] + quotaXML + bodyStr[start:], start a 1-based position
Splice(s, start, ins) == SubSeq(s, 1, start - 1) \o ins \o SubSeq(s, start, Len(s))

\* RewriteBody as it would be were the provider's error not looked at
RewriteBodyIgnoringErr(bodyStr, u) ==
    LET loc == propEndRegex(bodyStr)
    IN  IF loc # 0
        THEN Splice(bodyStr, loc, quotaXML(nsPrefix(bodyStr), u.free, u.used))
        ELSE bodyStr

\* the body written for a 207 once the Usage Provider has answered u
RewriteBody(bodyStr, u) ==
    IF u.err THEN bodyStr
    ELSE LET loc == propEndRegex(bodyStr)
         IN  IF loc # 0
             THEN Splice(bodyStr, loc, quotaXML(nsPrefix(bodyStr), u.free, u.used))
             ELSE bodyStr

(***************************************************************************)
(* quotaMiddleware: the figures.                                           *)
(***************************************************************************)
\* QuotaFigures as it would be without the clamp of used to the quota
QuotaFiguresNoClamp(quota, dirUsed, dirErr) ==
    IF dirErr THEN [free |-> 0, used |-> dirUsed, err |-> TRUE]
    ELSE [free |-> (quota - dirUsed + UintMod) % UintMod, used |-> dirUsed, err |-> FALSE]

\* the QuotaBytes > 0 branch, given what getDirUsedBytes returned
QuotaFigures(quota, dirUsed, dirErr) ==
    IF dirErr THEN [free |-> 0, used |-> dirUsed, err |-> TRUE]
    ELSE LET used == IF dirUsed > quota THEN quota ELSE dirUsed
             free == IF quota >= used THEN (quota - used + UintMod) % UintMod ELSE 0
         IN  [free |-> free, used |-> used, err |-> FALSE]

\* getDiskUsage: free = Bavail * Bsize, used = Blocks * Bsize - free (uint64)
getDiskUsage(bavail, blocks, bsize, statErr) ==
    IF statErr THEN [free |-> 0, used |-> 0, err |-> TRUE]
    ELSE LET free == (bavail * bsize) % UintMod
             total == (blocks * bsize) % UintMod
         IN  [free |-> free, used |-> (total - free + UintMod) % UintMod, err |-> FALSE]

\* Figures as they would be were the quota branch taken for every quota
FiguresAlwaysQuota(quota, dirUsed, dirErr, disk) ==
    QuotaFigures(quota, dirUsed, dirErr)

\* the free/used/err of quotaMiddleware
Figures(quota, dirUsed, dirErr, disk) ==
    IF quota > 0 THEN QuotaFigures(quota, dirUsed, dirErr) ELSE disk

(***************************************************************************)
(* Credential store: bcrypt and the User record.                           *)
(***************************************************************************)
BcryptMaxLen == 72   \* bytes of key material bcrypt reads; longer passwords are refused

\* n repetitions of the byte b
Rep(b, n) == [i \in 1 .. n |-> b]

\* the key material bcrypt hashes: the password with its trailing NUL, repeated
\* cyclically over the 72 bytes of the Blowfish key schedule
bcryptKey(password) ==
    LET ckey == password \o <<0>>
    IN  [i \in 1 .. BcryptMaxLen |-> ckey[((i - 1) % Len(ckey)) + 1]]

\* the hash of a password under a salt (collision-free over salt and key material)
bcrypt(password, salt) == [salt |-> salt, key |-> bcryptKey(password)]

\* bcrypt.GenerateFromPassword: ErrPasswordTooLong above 72 bytes
GenerateFails(password) == Len(password) > BcryptMaxLen

\* bcrypt.CompareHashAndPassword(hash, password) == nil
CompareHashAndPassword(hash, password) == bcrypt(password, hash.salt) = hash

\* Store.Authenticate
Authenticate(store, username, password) ==
    IF username \notin DOMAIN store THEN FALSE
    ELSE CompareHashAndPassword(store[username].password_hash, password)

User(username, hash) == [username |-> username, password_hash |-> hash]

\* a nil *User: the value json.Unmarshal stores for a member that is null
NilUser == [nil |-> TRUE]

\* Store.Authenticate dereferences u to read u.PasswordHash: a nil record
\* found under the username is a nil-pointer panic
AuthenticateFaults(store, username) ==
    username \in DOMAIN store /\ store[username] = NilUser

EmptyStore == [u \in {} |-> User(<<>>, bcrypt(<<>>, 1))]

NoFile == [kind |-> "absent"]

(***************************************************************************)
(* encoding/json as Save and load use it.  Strings are byte sequences over *)
(* the bytes a, b, the double quote, 0xFF (never valid UTF-8) and 0xEF,    *)
(* 0xBF, 0xBD (U+FFFD when in this order); the decoder below is exact on   *)
(* these bytes.  A bcrypt hash is ASCII of the alphabet ./0-9A-Za-z$ and   *)
(* is written and read back unchanged.                                     *)
(***************************************************************************)
IsCont(b) == b \in 128 .. 191

\* utf8.DecodeRuneInString at s[i:] yields a three-byte rune led by 0xEF
Valid3(s, i) ==
    /\ s[i] = 239
    /\ i + 2 <= Len(s)
    /\ IsCont(s[i + 1])
    /\ IsCont(s[i + 2])

Backslash == <<92>>
EscFFFD == <<92, 117, 102, 102, 102, 100>>   \* the escape written for an invalid byte
RuneFFFD == <<239, 191, 189>>                \* U+FFFD in UTF-8

\* json's appendString: the text written between the quotes for the string s
RECURSIVE appendString(_, _)
appendString(s, i) ==
    IF i > Len(s) THEN <<>>
    ELSE IF s[i] < 128
         THEN (IF s[i] \in {34, 92} THEN Backslash \o <<s[i]>> ELSE <<s[i]>>)
                 \o appendString(s, i + 1)
         ELSE IF Valid3(s, i)
              THEN SubSeq(s, i, i + 2) \o appendString(s, i + 3)
              ELSE EscFFFD \o appendString(s, i + 1)

EncodeString(s) == appendString(s, 1)

\* json's unquote: the string denoted by the text t between two quotes
RECURSIVE unquote(_, _)
unquote(t, i) ==
    IF i > Len(t) THEN <<>>
    ELSE IF t[i] = 92
         THEN IF HasAt(t, i, EscFFFD)
              THEN RuneFFFD \o unquote(t, i + 6)
              ELSE <<t[i + 1]>> \o unquote(t, i + 2)
         ELSE IF t[i] < 128
              THEN <<t[i]>> \o unquote(t, i + 1)
              ELSE IF Valid3(t, i)
                   THEN SubSeq(t, i, i + 2) \o unquote(t, i + 3)
                   ELSE RuneFFFD \o unquote(t, i + 1)

DecodeString(t) == unquote(t, 1)

\* strings.Compare on byte sequences
RECURSIVE LexLess(_, _)
LexLess(a, b) ==
    IF Len(b) = 0 THEN FALSE
    ELSE IF Len(a) = 0 THEN TRUE
    ELSE IF a[1] # b[1] THEN a[1] < b[1]
    ELSE LexLess(Tail(a), Tail(b))

\* the keys of a map in the order json writes them
RECURSIVE SortedKeys(_)
SortedKeys(S) ==
    IF S = {} THEN <<>>
    ELSE LET m == CHOOSE m \in S : \A o \in S \ {m} : LexLess(m, o)
         IN  <<m>> \o SortedKeys(S \ {m})

\* json.MarshalIndent(s.Users, "", "  "): one member per key, in key order
MarshalIndent(store) ==
    LET keys == SortedKeys(DOMAIN store)
    IN  [kind |-> "json",
         members |-> [i \in 1 .. Len(keys) |->
                        IF store[keys[i]] = NilUser
                        THEN [key |-> EncodeString(keys[i]), null |-> TRUE]
                        ELSE [key |-> EncodeString(keys[i]),
                              username |-> EncodeString(store[keys[i]].username),
                              password_hash |-> store[keys[i]].password_hash]]]

\* m[k] = v on a Go map
MapSet(m, k, v) == [x \in DOMAIN m \cup {k} |-> IF x = k THEN v ELSE m[x]]

\* delete(m, k) on a Go map
MapDelete(m, k) == [x \in DOMAIN m \ {k} |-> m[x]]

\* json.Unmarshal(data, &s.Users): members are stored in file order, a later
\* member replacing an earlier one of the same key, a null member stored as
\* a nil pointer
RECURSIVE UnmarshalFrom(_, _, _)
UnmarshalFrom(members, i, into) ==
    IF i > Len(members) THEN into
    ELSE UnmarshalFrom(members, i + 1,
             MapSet(into, DecodeString(members[i].key),
                    IF "null" \in DOMAIN members[i] THEN NilUser
                    ELSE User(DecodeString(members[i].username),
                              members[i].password_hash)))

Unmarshal(doc, into) == UnmarshalFrom(doc.members, 1, into)

\* a file whose bytes are not a JSON document (empty, truncated)
InvalidFile == [kind |-> "invalid"]

\* Store.load on a fresh store: the error it returns
loadErr(f) == CASE f.kind = "absent" -> "notexist"
                [] f.kind = "invalid" -> "syntax"
                [] OTHER -> "nil"

\* Store.load: s.Users after the call
loadUsers(f, into) == IF f.kind = "json" THEN Unmarshal(f, into) ELSE into

\* NewStore returns a store (err == nil, or the file does not exist)
NewStoreOK(f) == loadErr(f) \in {"nil", "notexist"}

\* Store.Add: the error it returns
AddErr(store, username, password) ==
    CASE username \in DOMAIN store -> "exists"
      [] GenerateFails(password) -> "hash"
      [] OTHER -> "nil"

\* AddUsers as it would be were a present username overwritten
AddUsersOverwrite(store, username, password, salt) ==
    IF GenerateFails(password) THEN store
    ELSE MapSet(store, username, User(username, bcrypt(password, salt)))

\* Store.Add: s.Users after the call, the hash drawn with the given salt
AddUsers(store, username, password, salt) ==
    IF AddErr(store, username, password) = "nil"
    THEN MapSet(store, username, User(username, bcrypt(password, salt)))
    ELSE store

\* DeleteUsers as it would be were the whole map dropped
DeleteUsersAll(store, username) == EmptyStore

\* Store.Delete: s.Users after the call
DeleteUsers(store, username) == MapDelete(store, username)

(***************************************************************************)
(* net/http: the ResponseWriter the client is served from.                 *)
(***************************************************************************)
HeaderNames == {"WWW-Authenticate", "Content-Type", "Content-Length", "X-Content-Type-Options"}

\* Header().Get returns "" for a header that is not set
NewWriter == [header |-> [h \in HeaderNames |-> <<>>],
              wroteHeader |-> FALSE, status |-> 0, body |-> <<>>]

SetHeader(rw, name, value) == [rw EXCEPT !.header[name] = value]

\* the first WriteHeader commits the status; later ones are ignored
WriteHeader(rw, code) ==
    IF rw.wroteHeader THEN rw
    ELSE [rw EXCEPT !.wroteHeader = TRUE, !.status = code]

\* Write commits 200 when no status was written, then appends
Write(rw, b) ==
    LET rw1 == WriteHeader(rw, 200)
    IN  [rw1 EXCEPT !.body = @ \o b]

\* http.Error(w, msg, code)
httpError(rw, msg, code) ==
    LET h1 == SetHeader(rw, "Content-Length", <<>>)
        h2 == SetHeader(h1, "Content-Type", <<"text/plain; charset=utf-8">>)
        h3 == SetHeader(h2, "X-Content-Type-Options", <<"nosniff">>)
    IN  Write(WriteHeader(h3, code), msg \o <<"\n">>)

\* responseBuffer.WriteHeader: every call overwrites the captured code
rbWriteHeader(b, code) == [b EXCEPT !.code = code]

\* responseBuffer.Write: appends to the buffer, commits nothing
rbWrite(b, bytes) == [b EXCEPT !.body = @ \o bytes]

NoBuffer == [active |-> FALSE, code |-> 0, body |-> <<>>]

\* &responseBuffer{ResponseWriter: w, body: new(bytes.Buffer), code: http.StatusOK}
NewBuffer == [active |-> TRUE, code |-> 200, body |-> <<>>]

StatusOK == 200
StatusMultiStatus == 207
StatusUnauthorized == 401

\* the zero sync.RWMutex: no writer holds or awaits it, no reader holds it
NoLock == [writer |-> 0, held |-> FALSE, readers |-> {}]

\* no goroutine, no command, no walk
NoThreads == <<>>
NoCli == <<>>
NoWalk == [asked |-> FALSE]

(***************************************************************************)
(* Inputs of the request pipeline.                                         *)
(***************************************************************************)
Alice == <<97>>
Bob == <<98>>
PwA == <<97>>
PwB == <<98>>

\* the Authorization header as r.BasicAuth() sees it: absent, not a well-formed
\* Basic credential, or a username and a password
AuthHeaders ==
    {[ok |-> FALSE, form |-> "missing", username |-> <<>>, password |-> <<>>],
     [ok |-> FALSE, form |-> "malformed", username |-> <<>>, password |-> <<>>],
     [ok |-> TRUE, form |-> "basic", username |-> Alice, password |-> PwA],
     [ok |-> TRUE, form |-> "basic", username |-> Alice, password |-> PwB],
     [ok |-> TRUE, form |-> "basic", username |-> Bob, password |-> PwA]}

Methods == {"PROPFIND", "GET"}
Paths == {"/", "/a.txt", "/docs"}

\* mime.TypeByExtension(filepath.Ext(path)) on the paths above
TypeByExtension(path) ==
    IF path = "/a.txt" THEN <<"text/plain; charset=utf-8">> ELSE <<>>

\* pieces of XML the engine writes
Fragments ==
    { <<"<", "/", "D", ":", "p", "r", "o", "p", ">">>,
      <<"<", "/", "p", "r", "o", "p", ">">>,
      <<"<", "/", "m", "y", "-", "p", "r", "o", "p", ">">>,
      <<"<", "D", ":", "p", "r", "o", "p", ">">>,
      <<"x", "m", "l", "n", "s", ":", "x", "=", "\"", "D", "A", "V", ":", "\"">>,
      <<"x", "m", "l", "n", "s", ":", "n", "s", "1", "=", "\"", "D", "A", "V", ":", "\"">>,
      <<"x", "m", "l", "n", "s", ":", "a", "-", "b", "=", "\"", "D", "A", "V", ":", "\"">>,
      <<"x", "m", "l", "n", "s", ":", "y", "=", "\"", "u", "r", "n", ":", "\"">>,
      <<"a">> }

EngineStatuses == {StatusOK, StatusMultiStatus, 404}

\* what the usage providers may answer
DirUsages == {[used |-> n, err |-> e] : n \in {4, UintMod - 1}, e \in BOOLEAN}
DiskUsages == {getDiskUsage(3, 7, 2, FALSE), getDiskUsage(1, 3, 3, FALSE),
               getDiskUsage(0, 0, 0, TRUE)}
QuotaConfigs == {0, 10}

NoUsage == [free |-> 0, used |-> 0, err |-> FALSE, asked |-> FALSE, dirUsed |-> 0,
            disk |-> [free |-> 0, used |-> 0, err |-> FALSE]]
NoReq == [method |-> "", path |-> "", auth |-> [ok |-> FALSE, form |-> "missing",
                                                  username |-> <<>>, password |-> <<>>]]
\* nothing produced yet: no call made, out the response a plain ResponseWriter
\* would hold after the engine's calls, last the code of its last WriteHeader
\* (200 while it has made none)
NoEng == [calls |-> 0, out |-> NewWriter, last |-> 200]
NoRan == [auth |-> "none", next |-> {}]
NoOp == [name |-> "none", username |-> <<>>, password |-> <<>>, err |-> "nil", n |-> 0,
         afterSave |-> FALSE]

ServerStore == (Alice :> User(Alice, bcrypt(PwA, 1)))

(***************************************************************************)
(* The request pipeline: Server.Start chains                               *)
(*   authMiddleware(mimeMiddleware(quotaMiddleware(webdavHandler))).       *)
(***************************************************************************)
\* authPasses as it would be were the password not checked
authPassesAnyPassword(store, auth) == auth.ok /\ auth.username \in DOMAIN store

\* authMiddleware forwards the request: r.BasicAuth() is ok and
\* s.UserStore.Authenticate(username, password) is true
authPasses(store, auth) ==
    auth.ok /\ Authenticate(store, auth.username, auth.password)

\* quotaBuffers as it would be were the path not checked
quotaBuffersAnyPath(r) == r.method = "PROPFIND"

\* quotaMiddleware buffers the response: r.Method == "PROPFIND" && r.URL.Path == "/"
quotaBuffers(r) == r.method = "PROPFIND" /\ r.path = "/"

\* quotaMiddleware rewrites the buffered response: rb.code == http.StatusMultiStatus
quotaRewrites(code) == code = StatusMultiStatus

\* contentLength as it would be were the length taken before the splice
contentLengthOfBuffer(bodyBytes) == Itoa(Len(rb.body))

\* the value of the Content-Length header quotaMiddleware sets
contentLength(bodyBytes) == Itoa(Len(bodyBytes))

\* what the server does when the handler returns: a response whose status was
\* never written goes out as 200
Finish(rw) == WriteHeader(rw, StatusOK)

Challenge == <<"Basic realm=\"Atlas Storage\"">>

\* AuthenticateUsers as it would be were a failed attempt to drop the record
AuthenticateUsersDropping(store, username, password) ==
    IF Authenticate(store, username, password) THEN store
    ELSE MapDelete(store, username)

\* Store.Authenticate: s.Users after the call; the map is read under RLock
\* and nothing is assigned
AuthenticateUsers(store, username, password) == store

\* a request arrives
Receive(m, p, a) ==
    /\ pc = "idle"
    /\ pc' = "auth"
    /\ req' = [method |-> m, path |-> p, auth |-> a]
    /\ UNCHANGED <<quotaBytes, users, file, w, rb, eng, usage, ran, op, before, mu, thr, cli, fs>>

\* authMiddleware's handler up to next.ServeHTTP
authMiddleware ==
    /\ pc = "auth"
    /\ IF authPasses(users, req.auth)
       THEN /\ pc' = "mime"
            /\ ran' = [ran EXCEPT !.auth = "accepted"]
            /\ w' = w
       ELSE /\ pc' = "done"
            /\ ran' = [ran EXCEPT !.auth = IF req.auth.ok THEN "rejected" ELSE "nocreds"]
            /\ w' = httpError(SetHeader(w, "WWW-Authenticate", Challenge),
                              <<"U", "n", "a", "u", "t", "h", "o", "r", "i", "z", "e", "d">>, StatusUnauthorized)
    /\ users' = IF req.auth.ok
                THEN AuthenticateUsers(users, req.auth.username, req.auth.password)
                ELSE users
    /\ UNCHANGED <<quotaBytes, file, req, rb, eng, usage, op, before, mu, thr, cli, fs>>

\* mimeMiddleware's handler up to next.ServeHTTP
mimeMiddleware ==
    /\ pc = "mime"
    /\ pc' = "quota"
    /\ ran' = [ran EXCEPT !.next = @ \cup {"mime"}]
    /\ w' = IF TypeByExtension(req.path) # <<>>
            THEN SetHeader(w, "Content-Type", TypeByExtension(req.path))
            ELSE w
    /\ UNCHANGED <<quotaBytes, users, file, req, rb, eng, usage, op, before, mu, thr, cli, fs>>

\* quotaMiddleware's handler up to next.ServeHTTP: the engine is handed rb for
\* a PROPFIND on the root and w otherwise
quotaMiddleware ==
    /\ pc = "quota"
    /\ pc' = "engine"
    /\ ran' = [ran EXCEPT !.next = @ \cup {"quota", "engine"}]
    /\ rb' = IF quotaBuffers(req) THEN NewBuffer ELSE NoBuffer
    /\ UNCHANGED <<quotaBytes, users, file, req, w, eng, usage, op, before, mu, thr, cli, fs>>

\* the engine sets the Content-Type of its listing; rb.Header() is w.Header()
EngineSetContentType ==
    /\ pc = "engine"
    /\ eng.calls = 0
    /\ w.header["Content-Type"] # <<"text/xml; charset=utf-8">>
    /\ w' = SetHeader(w, "Content-Type", <<"text/xml; charset=utf-8">>)
    /\ UNCHANGED <<quotaBytes, users, file, pc, req, rb, eng, usage, ran, op, before, mu, thr, cli, fs>>

\* the engine calls WriteHeader(code) on the writer it was handed
EngineWriteHeader(code) ==
    /\ pc = "engine"
    /\ eng.calls < MaxEngineCalls
    /\ eng' = [eng EXCEPT !.calls = @ + 1, !.out = WriteHeader(@, code), !.last = code]
    /\ IF rb.active
       THEN rb' = rbWriteHeader(rb, code) /\ w' = w
       ELSE w' = WriteHeader(w, code) /\ rb' = rb
    /\ UNCHANGED <<quotaBytes, users, file, pc, req, usage, ran, op, before, mu, thr, cli, fs>>

\* the engine calls Write(b) on the writer it was handed
EngineWrite(b) ==
    /\ pc = "engine"
    /\ eng.calls < MaxEngineCalls
    /\ eng' = [eng EXCEPT !.calls = @ + 1, !.out = Write(@, b)]
    /\ IF rb.active
       THEN rb' = rbWrite(rb, b) /\ w' = w
       ELSE w' = Write(w, b) /\ rb' = rb
    /\ UNCHANGED <<quotaBytes, users, file, pc, req, usage, ran, op, before, mu, thr, cli, fs>>

\* next.ServeHTTP returns to quotaMiddleware; without a buffer the handlers
\* return and the response is finished
EngineReturn ==
    /\ pc = "engine"
    /\ eng' = [eng EXCEPT !.out = Finish(@)]
    /\ IF rb.active
       THEN pc' = "flush" /\ w' = w
       ELSE pc' = "done" /\ w' = Finish(w)
    /\ UNCHANGED <<quotaBytes, users, file, req, rb, usage, ran, op, before, mu, thr, cli, fs>>

\* the response quotaMiddleware writes for a buffered 207, the Usage Provider
\* having answered u
multiStatusResponse(rw, buf, u) ==
    LET bodyBytes == RewriteBody(buf.body, u)
        w1 == SetHeader(rw, "Content-Length", contentLength(bodyBytes))
        w2 == IF w1.header["Content-Type"] = <<>>
              THEN SetHeader(w1, "Content-Type", <<"text/xml; charset=utf-8">>)
              ELSE w1
    IN  Write(WriteHeader(w2, buf.code), bodyBytes)

\* the response quotaMiddleware writes for a buffered response that is not a 207
passThrough(rw, buf) == Write(WriteHeader(rw, buf.code), buf.body)

\* quotaMiddleware's handler after next.ServeHTTP returned, for a buffered
\* response: dir is what getDirUsedBytes answers, disk what getDiskUsage answers
quotaFlush(dir, disk) ==
    /\ pc = "flush"
    /\ pc' = "done"
    /\ IF quotaRewrites(rb.code)
       THEN LET u == Figures(quotaBytes, dir.used, dir.err, disk)
            IN  /\ usage' = [free |-> u.free, used |-> u.used, err |-> u.err,
                              asked |-> TRUE, dirUsed |-> dir.used, disk |-> disk]
                /\ w' = Finish(multiStatusResponse(w, rb, u))
       ELSE /\ usage' = usage
            /\ w' = Finish(passThrough(w, rb))
    /\ UNCHANGED <<quotaBytes, users, file, req, rb, eng, ran, op, before, mu, thr, cli, fs>>

\* the response has gone out; the server waits for the next request
Finished ==
    /\ pc = "done"
    /\ pc' = "idle"
    /\ req' = NoReq
    /\ w' = NewWriter
    /\ rb' = NoBuffer
    /\ eng' = NoEng
    /\ usage' = NoUsage
    /\ ran' = NoRan
    /\ UNCHANGED <<quotaBytes, users, file, op, before, mu, thr, cli, fs>>

Init ==
    /\ quotaBytes \in QuotaConfigs
    /\ users = ServerStore
    /\ file = MarshalIndent(ServerStore)
    /\ pc = "idle"
    /\ req = NoReq
    /\ w = NewWriter
    /\ rb = NoBuffer
    /\ eng = NoEng
    /\ usage = NoUsage
    /\ ran = NoRan
    /\ op = NoOp
    /\ mu = NoLock
    /\ thr = NoThreads
    /\ cli = NoCli
    /\ fs = NoWalk
    /\ before = ServerStore

Next ==
    \/ \E m \in Methods, p \in Paths, a \in AuthHeaders : Receive(m, p, a)
    \/ authMiddleware
    \/ mimeMiddleware
    \/ quotaMiddleware
    \/ EngineSetContentType
    \/ \E c \in EngineStatuses : EngineWriteHeader(c)
    \/ \E b \in Fragments : EngineWrite(b)
    \/ EngineReturn
    \/ \E dir \in DirUsages, disk \in DiskUsages : quotaFlush(dir, disk)
    \/ Finished

Spec == Init /\ [][Next]_vars

(***************************************************************************)
(* The figures alone: quotaMiddleware's computation of free and used over  *)
(* every quota and every answer of the usage providers.                    *)
(***************************************************************************)
StatfsValues == {0, 1, 3}

ComputeFigures(dirUsed, dirErr, disk) ==
    /\ pc = "idle"
    /\ pc' = "done"
    /\ LET u == Figures(quotaBytes, dirUsed, dirErr, disk)
       IN  usage' = [free |-> u.free, used |-> u.used, err |-> u.err,
                     asked |-> TRUE, dirUsed |-> dirUsed, disk |-> disk]
    /\ UNCHANGED <<quotaBytes, users, file, req, w, rb, eng, ran, op, before, mu, thr, cli, fs>>

InitFigures ==
    /\ quotaBytes \in Uint
    /\ users = ServerStore
    /\ file = MarshalIndent(ServerStore)
    /\ pc = "idle"
    /\ req = NoReq
    /\ w = NewWriter
    /\ rb = NoBuffer
    /\ eng = NoEng
    /\ usage = NoUsage
    /\ ran = NoRan
    /\ op = NoOp
    /\ mu = NoLock
    /\ thr = NoThreads
    /\ cli = NoCli
    /\ fs = NoWalk
    /\ before = ServerStore

NextFigures ==
    \E dirUsed \in Uint, dirErr \in BOOLEAN,
       bavail \in StatfsValues, blocks \in StatfsValues, bsize \in StatfsValues,
       statErr \in BOOLEAN :
        ComputeFigures(dirUsed, dirErr, getDiskUsage(bavail, blocks, bsize, statErr))

SpecFigures == InitFigures /\ [][NextFigures]_vars

(***************************************************************************)
(* The credential store used by one process at a time: NewStore, Add,      *)
(* Delete and Save called one after the other.                             *)
(***************************************************************************)
\* usernames: plain ASCII, one with a double quote, a byte that is not UTF-8,
\* and U+FFFD itself
StoreNames == {Alice, <<97, 34>>, <<255>>, RuneFFFD}
\* passwords: empty, short, of exactly 72 bytes and of 73
Passwords == {<<>>, PwA, Rep(97, BcryptMaxLen), Rep(97, BcryptMaxLen + 1)}
Salts == 1 .. NumSalts

\* Add as it would be were the mapping written to the file on success
AddPersisting(username, password, salt) ==
    /\ op.n < MaxStoreOps
    /\ before' = users
    /\ users' = AddUsers(users, username, password, salt)
    /\ file' = IF AddErr(users, username, password) = "nil"
               THEN MarshalIndent(users') ELSE file
    /\ op' = [name |-> "Add", username |-> username, password |-> password,
              err |-> AddErr(users, username, password), n |-> op.n + 1,
              afterSave |-> FALSE]
    /\ UNCHANGED <<quotaBytes, pc, req, w, rb, eng, usage, ran, mu, thr, cli, fs>>

\* store.Add(username, password)
Add(username, password, salt) ==
    /\ op.n < MaxStoreOps
    /\ before' = users
    /\ users' = AddUsers(users, username, password, salt)
    /\ op' = [name |-> "Add", username |-> username, password |-> password,
              err |-> AddErr(users, username, password), n |-> op.n + 1,
              afterSave |-> FALSE]
    /\ UNCHANGED <<quotaBytes, file, pc, req, w, rb, eng, usage, ran, mu, thr, cli, fs>>

\* store.Delete(username)
Delete(username) ==
    /\ op.n < MaxStoreOps
    /\ before' = users
    /\ users' = DeleteUsers(users, username)
    /\ op' = [name |-> "Delete", username |-> username, password |-> <<>>,
              err |-> "nil", n |-> op.n + 1, afterSave |-> FALSE]
    /\ UNCHANGED <<quotaBytes, file, pc, req, w, rb, eng, usage, ran, mu, thr, cli, fs>>

\* store.Authenticate(username, password): the answer, or the panic, is kept
\* in op.err
StoreAuthenticate(username, password) ==
    /\ op.n < MaxStoreOps
    /\ before' = users
    /\ users' = AuthenticateUsers(users, username, password)
    /\ op' = [name |-> "Authenticate", username |-> username, password |-> password,
              err |-> CASE AuthenticateFaults(users, username) -> "panic"
                        [] Authenticate(users, username, password) -> "true"
                        [] OTHER -> "false",
              n |-> op.n + 1, afterSave |-> FALSE]
    /\ UNCHANGED <<quotaBytes, file, pc, req, w, rb, eng, usage, ran, mu, thr, cli, fs>>

\* store.List(): the usernames are copied out of the map
StoreList ==
    /\ op.n < MaxStoreOps
    /\ before' = users
    /\ op' = [name |-> "List", username |-> <<>>, password |-> <<>>,
              err |-> "nil", n |-> op.n + 1, afterSave |-> FALSE]
    /\ UNCHANGED <<quotaBytes, users, file, pc, req, w, rb, eng, usage, ran, mu, thr, cli, fs>>

\* the file after os.WriteFile(s.filePath, data, 0644): written in full, left
\* as it was when it cannot be opened, cut short when the write fails
WriteFile(f, data, io) ==
    CASE io = "ok" -> data
      [] io = "open" -> f
      [] io = "write" -> InvalidFile

\* f.Write(data) on a file opened with O_TRUNC: the bytes go to offset 0, so
\* what another writer has put there since the open is overwritten from the
\* start and its tail stays when it is longer than data (every member of a
\* document over one-byte usernames has the same length)
WriteAtStart(f, data) ==
    IF f.kind = "json" /\ Len(f.members) > Len(data.members)
    THEN InvalidFile
    ELSE data

\* store.Save(), the file system answering io
Save(io) ==
    /\ op.n < MaxStoreOps
    /\ before' = users
    /\ file' = WriteFile(file, MarshalIndent(users), io)
    /\ op' = [name |-> "Save", username |-> <<>>, password |-> <<>>,
              err |-> IF io = "ok" THEN "nil" ELSE io, n |-> op.n + 1,
              afterSave |-> FALSE]
    /\ UNCHANGED <<quotaBytes, users, pc, req, w, rb, eng, usage, ran, mu, thr, cli, fs>>

\* NewStore(path) on the same path: a fresh store replaces the one in use
\* when NewStore returns one
NewStore ==
    /\ op.n < MaxStoreOps
    /\ before' = users
    /\ users' = IF NewStoreOK(file) THEN loadUsers(file, EmptyStore) ELSE users
    /\ op' = [name |-> "NewStore", username |-> <<>>, password |-> <<>>,
              err |-> IF NewStoreOK(file) THEN "nil" ELSE loadErr(file),
              n |-> op.n + 1,
              afterSave |-> (op.name = "Save" /\ op.err = "nil")]
    /\ UNCHANGED <<quotaBytes, file, pc, req, w, rb, eng, usage, ran, mu, thr, cli, fs>>

InitStore ==
    /\ quotaBytes = 0
    /\ file \in {NoFile, MarshalIndent(ServerStore)}
    /\ users = loadUsers(file, EmptyStore)
    /\ pc = "idle"
    /\ req = NoReq
    /\ w = NewWriter
    /\ rb = NoBuffer
    /\ eng = NoEng
    /\ usage = NoUsage
    /\ ran = NoRan
    /\ op = NoOp
    /\ mu = NoLock
    /\ thr = NoThreads
    /\ cli = NoCli
    /\ fs = NoWalk
    /\ before = users

NextStore ==
    \/ \E u \in StoreNames, p \in Passwords, s \in Salts : Add(u, p, s)
    \/ \E u \in StoreNames : Delete(u)
    \/ \E u \in {Alice, RuneFFFD} : StoreAuthenticate(u, PwA)
    \/ StoreList
    \/ \E io \in {"ok", "open", "write"} : Save(io)
    \/ NewStore

SpecStore == InitStore /\ [][NextStore]_vars

(***************************************************************************)
(* The store shared by goroutines: every method is a sequence of steps     *)
(* between which the other goroutines run.  Store.mu is a sync.RWMutex: a  *)
(* writer that has called Lock keeps new readers out while it waits for    *)
(* the readers inside to leave.                                            *)
(***************************************************************************)
NumThreads == 3
Threads == 1 .. NumThreads

ConcNames == {Alice}
StoreMethods == {"Add", "Delete", "load", "Authenticate", "List", "Save"}

\* a goroutine that is not inside a method of the store
IdleThread == [op |-> "none", at |-> "idle", username |-> <<>>, data |-> NoFile,
               ret |-> "nil"]

\* LockKind as it would be were every method to take the read lock
LockKindAllShared(method) == "r"

\* the lock a method takes on entry: s.mu.Lock() or s.mu.RLock()
LockKind(method) ==
    IF method \in {"Add", "Delete", "load"} THEN "w" ELSE "r"

\* the first statement of a method after it has taken the lock
FirstStep(method) ==
    CASE method = "Add" -> "check"
      [] method = "Delete" -> "delete"
      [] method = "load" -> "readfile"
      [] method = "Authenticate" -> "lookup"
      [] method = "List" -> "range"
      [] method = "Save" -> "marshal"

\* mu.Lock() can start: no other writer holds or awaits the lock
CanLock(m) == m.writer = 0

\* mu.Lock() returns: the readers inside have left
CanAcquire(m, t) == m.writer = t /\ ~m.held /\ m.readers = {}

\* mu.RLock() returns: no writer holds or awaits the lock
CanRLock(m) == m.writer = 0

\* a goroutine calls Add, Delete or load: s.mu.Lock() announces the writer
LockBegin(t, method, username) ==
    /\ thr[t].at = "idle"
    /\ LockKind(method) = "w"
    /\ CanLock(mu)
    /\ mu' = [mu EXCEPT !.writer = t]
    /\ thr' = [thr EXCEPT ![t] = [op |-> method, at |-> "wait", username |-> username,
                                  data |-> NoFile, ret |-> "nil"]]
    /\ UNCHANGED <<quotaBytes, users, file, pc, req, w, rb, eng, usage, ran, op, before, cli, fs>>

\* s.mu.Lock() returns
LockAcquire(t) ==
    /\ thr[t].at = "wait"
    /\ CanAcquire(mu, t)
    /\ mu' = [mu EXCEPT !.held = TRUE]
    /\ thr' = [thr EXCEPT ![t].at = FirstStep(thr[t].op)]
    /\ UNCHANGED <<quotaBytes, users, file, pc, req, w, rb, eng, usage, ran, op, before, cli, fs>>

\* a goroutine calls Authenticate, List or Save: s.mu.RLock() returns
RLock(t, method, username) ==
    /\ thr[t].at = "idle"
    /\ LockKind(method) = "r"
    /\ CanRLock(mu)
    /\ mu' = [mu EXCEPT !.readers = @ \cup {t}]
    /\ thr' = [thr EXCEPT ![t] = [op |-> method, at |-> FirstStep(method),
                                  username |-> username, data |-> NoFile, ret |-> "nil"]]
    /\ UNCHANGED <<quotaBytes, users, file, pc, req, w, rb, eng, usage, ran, op, before, cli, fs>>

\* Add: the lookup of the username and the hashing of the password
AddCheck(t) ==
    /\ thr[t].op = "Add"
    /\ thr[t].at = "check"
    /\ thr' = [thr EXCEPT ![t].at = IF thr[t].username \in DOMAIN users
                                    THEN "unlock" ELSE "assign",
                          ![t].ret = IF thr[t].username \in DOMAIN users
                                     THEN "exists" ELSE "nil"]
    /\ UNCHANGED <<quotaBytes, users, file, pc, req, w, rb, eng, usage, ran, op, before, mu, cli, fs>>

\* Add, Delete, load: the assignment to the map has started
WriteBegin(t) ==
    /\ thr[t].at \in {"assign", "delete", "unmarshal"}
    /\ thr' = [thr EXCEPT ![t].at = "writing"]
    /\ UNCHANGED <<quotaBytes, users, file, pc, req, w, rb, eng, usage, ran, op, before, mu, cli, fs>>

\* Add, Delete, load: the assignment to the map is complete
WriteEnd(t) ==
    /\ thr[t].at = "writing"
    /\ users' = CASE thr[t].op = "Add" ->
                       AddUsers(users, thr[t].username, PwA, 1)
                  [] thr[t].op = "Delete" -> DeleteUsers(users, thr[t].username)
                  [] thr[t].op = "load" -> loadUsers(thr[t].data, users)
    /\ thr' = [thr EXCEPT ![t].at = "unlock"]
    /\ UNCHANGED <<quotaBytes, file, pc, req, w, rb, eng, usage, ran, op, before, mu, cli, fs>>

\* load: os.ReadFile(s.filePath), then json.Unmarshal when the file was read
ReadFile(t) ==
    /\ thr[t].at = "readfile"
    /\ thr' = [thr EXCEPT ![t].data = file,
                          ![t].ret = loadErr(file),
                          ![t].at = IF loadErr(file) = "nil"
                                    THEN "unmarshal" ELSE "unlock"]
    /\ UNCHANGED <<quotaBytes, users, file, pc, req, w, rb, eng, usage, ran, op, before, mu, cli, fs>>

\* Authenticate: the lookup and the comparison of the hash
Lookup(t) ==
    /\ thr[t].at = "lookup"
    /\ thr' = [thr EXCEPT ![t].ret = IF Authenticate(users, thr[t].username, PwA)
                                     THEN "true" ELSE "false",
                          ![t].at = "unlock"]
    /\ UNCHANGED <<quotaBytes, users, file, pc, req, w, rb, eng, usage, ran, op, before, mu, cli, fs>>

\* List: the loop over the map
Range(t) ==
    /\ thr[t].at = "range"
    /\ thr' = [thr EXCEPT ![t].at = "unlock"]
    /\ UNCHANGED <<quotaBytes, users, file, pc, req, w, rb, eng, usage, ran, op, before, mu, cli, fs>>

\* Save: json.MarshalIndent(s.Users, "", "  ")
Marshal(t) ==
    /\ thr[t].at = "marshal"
    /\ thr' = [thr EXCEPT ![t].data = MarshalIndent(users), ![t].at = "mkdir"]
    /\ UNCHANGED <<quotaBytes, users, file, pc, req, w, rb, eng, usage, ran, op, before, mu, cli, fs>>

\* Save: os.MkdirAll(dir, 0755)
MkdirAll(t) ==
    /\ thr[t].at = "mkdir"
    /\ thr' = [thr EXCEPT ![t].at = "open"]
    /\ UNCHANGED <<quotaBytes, users, file, pc, req, w, rb, eng, usage, ran, op, before, mu, cli, fs>>

\* Save: os.WriteFile opens the file with O_TRUNC, which empties it
OpenTrunc(t) ==
    /\ thr[t].at = "open"
    /\ file' = InvalidFile
    /\ thr' = [thr EXCEPT ![t].at = "write"]
    /\ UNCHANGED <<quotaBytes, users, pc, req, w, rb, eng, usage, ran, op, before, mu, cli, fs>>

\* Save: os.WriteFile writes the data and closes the file
WriteData(t) ==
    /\ thr[t].at = "write"
    /\ file' = WriteAtStart(file, thr[t].data)
    /\ thr' = [thr EXCEPT ![t].at = "unlock"]
    /\ UNCHANGED <<quotaBytes, users, pc, req, w, rb, eng, usage, ran, op, before, mu, cli, fs>>

\* the deferred s.mu.Unlock() or s.mu.RUnlock() runs and the method returns
Unlock(t) ==
    /\ thr[t].at = "unlock"
    /\ mu' = IF LockKind(thr[t].op) = "w"
             THEN [mu EXCEPT !.writer = 0, !.held = FALSE]
             ELSE [mu EXCEPT !.readers = @ \ {t}]
    /\ thr' = [thr EXCEPT ![t] = IdleThread]
    /\ UNCHANGED <<quotaBytes, users, file, pc, req, w, rb, eng, usage, ran, op, before, cli, fs>>

InitConc ==
    /\ quotaBytes = 0
    /\ file \in {NoFile, MarshalIndent(ServerStore)}
    /\ users = loadUsers(file, EmptyStore)
    /\ pc = "idle"
    /\ req = NoReq
    /\ w = NewWriter
    /\ rb = NoBuffer
    /\ eng = NoEng
    /\ usage = NoUsage
    /\ ran = NoRan
    /\ op = NoOp
    /\ before = users
    /\ mu = NoLock
    /\ thr = [t \in Threads |-> IdleThread]
    /\ cli = NoCli
    /\ fs = NoWalk

NextConc ==
    \E t \in Threads :
        \/ \E m \in StoreMethods, u \in ConcNames : LockBegin(t, m, u)
        \/ LockAcquire(t)
        \/ \E m \in StoreMethods, u \in ConcNames : RLock(t, m, u)
        \/ AddCheck(t)
        \/ WriteBegin(t)
        \/ WriteEnd(t)
        \/ ReadFile(t)
        \/ Lookup(t)
        \/ Range(t)
        \/ Marshal(t)
        \/ MkdirAll(t)
        \/ OpenTrunc(t)
        \/ WriteData(t)
        \/ Unlock(t)

SpecConc == InitConc /\ [][NextConc]_vars

(***************************************************************************)
(* getDirUsedBytes: filepath.WalkDir over the data directory.  A node of   *)
(* the tree is a file, a symbolic link or a directory; fault is what the   *)
(* operating system answers when the walk reaches it: for a file or a link *)
(* the answer of d.Info(), for a directory the answer of os.ReadDir.       *)
(***************************************************************************)
MaxEntries == 2   \* entries of the data root

EntrySizes == {1, 2}
Faults == {"none", "vanished", "denied"}

Files == {[kind |-> "file", size |-> s, fault |-> f, children |-> <<>>] :
            s \in EntrySizes, f \in Faults}
Links == {[kind |-> "symlink", size |-> 1, fault |-> "none", children |-> <<>>]}
SubDirs == {[kind |-> "dir", size |-> 4, fault |-> f, children |-> c] :
              f \in Faults, c \in {<<>>} \cup {<<x>> : x \in Files \cup Links}}
Entries == Files \cup Links \cup SubDirs

\* sequences of at most n entries
RECURSIVE EntrySeqs(_)
EntrySeqs(n) ==
    IF n = 0 THEN {<<>>}
    ELSE EntrySeqs(n - 1) \cup
         {Append(s, e) : s \in {q \in EntrySeqs(n - 1) : Len(q) = n - 1}, e \in Entries}

\* the data root: lstat is the answer of os.Lstat(root)
Roots ==
    {[kind |-> "dir", size |-> 4, lstat |-> l, fault |-> f, children |-> c] :
        l \in Faults, f \in Faults, c \in EntrySeqs(MaxEntries)}

\* os.IsNotExist(err)
IsNotExist(fault) == fault = "vanished"

\* the callback of getDirUsedBytes called with err != nil: the error it returns
callbackErr(fault) == ~IsNotExist(fault)

\* the callback of getDirUsedBytes called with err == nil on an entry that
\* is not a directory: total after the call
callbackTotal(node, total) ==
    IF node.fault # "none" THEN total
    ELSE (total + node.size) % UintMod

\* filepath.walkDir: calls the callback on the node, reads a directory and
\* walks its entries in order, stopping at the first error
RECURSIVE walkDir(_, _)
RECURSIVE walkEntries(_, _, _)
walkDir(node, total) ==
    IF node.kind # "dir" THEN [total |-> callbackTotal(node, total), err |-> FALSE]
    ELSE IF node.fault # "none"
         THEN [total |-> total, err |-> callbackErr(node.fault)]
         ELSE walkEntries(node.children, 1, total)

walkEntries(entries, i, total) ==
    IF i > Len(entries) THEN [total |-> total, err |-> FALSE]
    ELSE LET r == walkDir(entries[i], total)
         IN  IF r.err THEN r ELSE walkEntries(entries, i + 1, r.total)

\* filepath.WalkDir(dir, fn): os.Lstat on the root, then walkDir
WalkDir(root) ==
    IF root.lstat # "none"
    THEN [total |-> 0, err |-> callbackErr(root.lstat)]
    ELSE walkDir(root, 0)

\* getDirUsedBytes(s.DataDir)
getDirUsedBytes ==
    /\ ~fs.asked
    /\ fs' = [asked |-> TRUE, tree |-> fs.tree,
              total |-> WalkDir(fs.tree).total, err |-> WalkDir(fs.tree).err]
    /\ UNCHANGED <<quotaBytes, users, file, pc, req, w, rb, eng, usage, ran, op, before, mu, thr, cli>>

InitWalk ==
    /\ quotaBytes = 0
    /\ users = ServerStore
    /\ file = MarshalIndent(ServerStore)
    /\ pc = "idle"
    /\ req = NoReq
    /\ w = NewWriter
    /\ rb = NoBuffer
    /\ eng = NoEng
    /\ usage = NoUsage
    /\ ran = NoRan
    /\ op = NoOp
    /\ before = ServerStore
    /\ mu = NoLock
    /\ thr = NoThreads
    /\ cli = NoCli
    /\ fs \in {[asked |-> FALSE, tree |-> r] : r \in Roots}

NextWalk == getDirUsedBytes

SpecWalk == InitWalk /\ [][NextWalk]_vars

(***************************************************************************)
(* The user-management commands: `atlas user add` and `atlas user rm` run  *)
(* as two processes on the same users.json, each with a store of its own.  *)
(***************************************************************************)
Procs == {1, 2}

\* process 1 works on one username, process 2 on another
CliCommands(p) ==
    {[cmd |-> c, username |-> IF p = 1 THEN Alice ELSE Bob] : c \in {"add", "rm"}}

CliFiles ==
    {NoFile, MarshalIndent(ServerStore),
     MarshalIndent(MapSet(ServerStore, Bob, User(Bob, bcrypt(PwA, 1))))}

\* a command that has not called getUserStore yet
NewCommand(c) == [cmd |-> c.cmd, username |-> c.username, at |-> "load",
                  users |-> EmptyStore, data |-> NoFile, err |-> "nil"]

\* getUserStore(): NewStore on users.json
CliLoad(p) ==
    /\ cli[p].at = "load"
    /\ cli' = [cli EXCEPT ![p].users = loadUsers(file, EmptyStore),
                          ![p].err = IF NewStoreOK(file) THEN "nil" ELSE loadErr(file),
                          ![p].at = IF NewStoreOK(file) THEN "mutate" ELSE "failed"]
    /\ UNCHANGED <<quotaBytes, users, file, pc, req, w, rb, eng, usage, ran, op, before, mu, thr, fs>>

\* store.Add(username, password) or store.Delete(username)
CliMutate(p) ==
    /\ cli[p].at = "mutate"
    /\ cli' = IF cli[p].cmd = "add"
              THEN [cli EXCEPT
                      ![p].users = AddUsers(cli[p].users, cli[p].username, PwA, 1),
                      ![p].err = AddErr(cli[p].users, cli[p].username, PwA),
                      ![p].at = IF AddErr(cli[p].users, cli[p].username, PwA) = "nil"
                                THEN "save" ELSE "failed"]
              ELSE [cli EXCEPT
                      ![p].users = DeleteUsers(cli[p].users, cli[p].username),
                      ![p].at = "save"]
    /\ UNCHANGED <<quotaBytes, users, file, pc, req, w, rb, eng, usage, ran, op, before, mu, thr, fs>>

\* store.Save() up to the open of os.WriteFile, which empties the file
CliSaveOpen(p) ==
    /\ cli[p].at = "save"
    /\ file' = InvalidFile
    /\ cli' = [cli EXCEPT ![p].data = MarshalIndent(cli[p].users), ![p].at = "write"]
    /\ UNCHANGED <<quotaBytes, users, pc, req, w, rb, eng, usage, ran, op, before, mu, thr, fs>>

\* store.Save(): os.WriteFile writes the data; the command reports success
CliSaveWrite(p) ==
    /\ cli[p].at = "write"
    /\ file' = WriteAtStart(file, cli[p].data)
    /\ cli' = [cli EXCEPT ![p].at = "ok"]
    /\ UNCHANGED <<quotaBytes, users, pc, req, w, rb, eng, usage, ran, op, before, mu, thr, fs>>

InitCli ==
    /\ quotaBytes = 0
    /\ file \in CliFiles
    /\ users = EmptyStore
    /\ pc = "idle"
    /\ req = NoReq
    /\ w = NewWriter
    /\ rb = NoBuffer
    /\ eng = NoEng
    /\ usage = NoUsage
    /\ ran = NoRan
    /\ op = NoOp
    /\ before = EmptyStore
    /\ mu = NoLock
    /\ thr = NoThreads
    /\ cli \in {[p \in Procs |-> NewCommand(IF p = 1 THEN a ELSE b)] :
                  a \in CliCommands(1), b \in CliCommands(2)}
    /\ fs = NoWalk

NextCli ==
    \E p \in Procs :
        \/ CliLoad(p)
        \/ CliMutate(p)
        \/ CliSaveOpen(p)
        \/ CliSaveWrite(p)

SpecCli == InitCli /\ [][NextCli]_vars

(***************************************************************************)
(* A store loaded from a users.json written by hand: any JSON object is    *)
(* accepted by json.Unmarshal into map[string]*User.                       *)
(***************************************************************************)
LoadNames == {Alice, Bob}

\* the member "key": null
NullMember(key) == [key |-> EncodeString(key), null |-> TRUE]

\* the member "key": {"username": ..., "password_hash": ...}
RecordMember(key, username, hash) ==
    [key |-> EncodeString(key), username |-> EncodeString(username),
     password_hash |-> hash]

\* the PasswordHash of a record written as {}: the empty string
NoHash == [salt |-> 0, key |-> <<>>]

HandWrittenFiles ==
    {[kind |-> "json", members |-> m] :
        m \in {<<>>,
               <<RecordMember(Alice, Alice, bcrypt(PwA, 1))>>,
               <<NullMember(Bob)>>,
               <<RecordMember(Alice, Alice, bcrypt(PwA, 1)), NullMember(Bob)>>,
               <<RecordMember(Bob, Alice, bcrypt(PwA, 1))>>,
               <<RecordMember(Bob, <<>>, NoHash)>>,
               <<NullMember(Alice), RecordMember(Alice, Alice, bcrypt(PwA, 1))>>}}

InitLoad ==
    /\ quotaBytes = 0
    /\ file \in HandWrittenFiles
    /\ users = loadUsers(file, EmptyStore)
    /\ pc = "idle"
    /\ req = NoReq
    /\ w = NewWriter
    /\ rb = NoBuffer
    /\ eng = NoEng
    /\ usage = NoUsage
    /\ ran = NoRan
    /\ op = NoOp
    /\ before = users
    /\ mu = NoLock
    /\ thr = NoThreads
    /\ cli = NoCli
    /\ fs = NoWalk

NextLoad ==
    \/ \E u \in LoadNames : Add(u, PwA, 1)
    \/ \E u \in LoadNames : Delete(u)
    \/ \E u \in LoadNames, p \in {PwA, PwB} : StoreAuthenticate(u, p)
    \/ StoreList
    \/ Save("ok")

SpecLoad == InitLoad /\ [][NextLoad]_vars

(***************************************************************************)
(* Properties of the request pipeline.                                     *)
(***************************************************************************)
\* the request in flight carries basic credentials the store accepts
CredentialsAccepted ==
    req.auth.ok /\ Authenticate(users, req.auth.username, req.auth.password)

\* the request was buffered by quotaMiddleware and is finished
BufferedDone == pc = "done" /\ rb.active

\* a finished PROPFIND on "/" whose captured status is 207
MultiStatusDone ==
    /\ pc = "done"
    /\ "quota" \in ran.next
    /\ req.method = "PROPFIND"
    /\ req.path = "/"
    /\ eng.last = 207

\* C1: a stage behind the Auth Gate runs only for a request whose basic
\* credentials Authenticate accepted; a request without credentials, or whose
\* credentials Authenticate rejects, is answered 401 with a WWW-Authenticate
\* challenge and reaches no later stage.
AuthGateFirst ==
    /\ (pc \in {"mime", "quota", "engine", "flush"} \/ ran.next # {} \/ eng.calls > 0)
          => (CredentialsAccepted /\ ran.auth = "accepted")
    /\ (pc = "done" /\ ~CredentialsAccepted)
          => /\ w.status = 401
             /\ w.header["WWW-Authenticate"] # <<>>
             /\ ran.next = {}
             /\ eng.calls = 0

\* C1 witness: a request with credentials the store rejects has been answered
AuthGateFirstWitness ==
    /\ pc = "done"
    /\ req.auth.ok
    /\ ~Authenticate(users, req.auth.username, req.auth.password)
    /\ w.status = 401

\* C2: a request that reached the Quota Reporter and is not a PROPFIND on "/"
\* with captured status 207 is delivered with the status and the body bytes
\* the engine produced.
PassThroughExact ==
    (pc = "done" /\ "quota" \in ran.next) =>
        /\ (req.method # "PROPFIND" \/ req.path # "/")
              => (w.status = eng.out.status /\ w.body = eng.out.body)
        /\ (req.method = "PROPFIND" /\ req.path = "/" /\ eng.last # 207)
              => (w.status = eng.last /\ w.body = eng.out.body)

\* C2 witness: a PROPFIND on "/" the engine answered 404 with a body
PassThroughExactWitness ==
    /\ BufferedDone
    /\ eng.last = 404
    /\ propEndRegex(eng.out.body) # 0

\* a name character of XML that may follow the first one
XmlNameChar == PropClass \cup {"-", "."}

\* s holds at i a closing tag whose name is made of the characters in class
\* and ends in prop
ClosingPropTag(s, i, class) ==
    \E j \in (i + 2) .. (Len(s) - 4) :
        /\ HasAt(s, i, <<"<", "/">>)
        /\ \A k \in (i + 2) .. (j - 1) : s[k] \in class
        /\ HasAt(s, j, <<"p", "r", "o", "p", ">">>)

\* the delivered body is the engine's body with ins inserted once, before
\* the first closing tag of the class; or the engine's body when it has none
InsertedBeforeFirst(body, delivered, ins, class) ==
    IF \E i \in 1 .. Len(body) : ClosingPropTag(body, i, class)
    THEN \E i \in 1 .. Len(body) :
            /\ ClosingPropTag(body, i, class)
            /\ \A h \in 1 .. (i - 1) : ~ClosingPropTag(body, h, class)
            /\ Len(delivered) = Len(body) + Len(ins)
            /\ \A k \in 1 .. (i - 1) : delivered[k] = body[k]
            /\ \A k \in 1 .. Len(ins) : delivered[i - 1 + k] = ins[k]
            /\ \A k \in i .. Len(body) : delivered[k + Len(ins)] = body[k]
    ELSE delivered = body

\* the two quota elements of a finished request
QuotaElements == quotaXML(nsPrefix(eng.out.body), usage.free, usage.used)

\* C3 as claimed: with a successful usage computation, the two quota elements
\* are inserted once before the first closing tag whose name ends in prop,
\* and a body without such a tag is delivered unchanged.
SpliceBeforeFirstNamedProp ==
    (MultiStatusDone /\ usage.asked /\ ~usage.err) =>
        InsertedBeforeFirst(eng.out.body, w.body, QuotaElements, XmlNameChar)

\* C3 amended: with a successful usage computation, the two quota elements
\* are inserted once before the first occurrence of "</", any run of ASCII
\* letters, digits, "_" and ":", then "prop>"; a body without such an
\* occurrence is delivered unchanged.
SpliceBeforeFirstPropEnd ==
    (MultiStatusDone /\ usage.asked /\ ~usage.err) =>
        InsertedBeforeFirst(eng.out.body, w.body, QuotaElements, PropClass)

\* C3 witness: a body with two closing prop tags was rewritten
SpliceBeforeFirstPropEndWitness ==
    /\ MultiStatusDone
    /\ usage.asked
    /\ ~usage.err
    /\ \E i, h \in 1 .. Len(eng.out.body) :
          i < h /\ propEndMatchAt(eng.out.body, i) /\ propEndMatchAt(eng.out.body, h)
    /\ Len(w.body) > Len(eng.out.body)

\* C4: for a PROPFIND on "/" with captured status 207 the Content-Length
\* header is the byte length of the body written to the client.
ContentLengthExact ==
    MultiStatusDone =>
        /\ w.header["Content-Length"] # <<>>
        /\ \A k \in 1 .. Len(w.header["Content-Length"]) :
              w.header["Content-Length"][k] \in Digit
        /\ Atoi(w.header["Content-Length"]) = Len(w.body)

\* C4 witness: a rewritten 207
ContentLengthExactWitness ==
    /\ MultiStatusDone
    /\ Len(w.body) > Len(eng.out.body)
    /\ Atoi(w.header["Content-Length"]) > 9

\* C5: with a quota set and a successful directory scan, used is the smaller
\* of the scan and the quota and free is the quota less used, without
\* wrapping: free + used = quota.
ClampFigures ==
    (usage.asked /\ quotaBytes > 0 /\ ~usage.err) =>
        /\ usage.used = Min(usage.dirUsed, quotaBytes)
        /\ usage.free = quotaBytes - usage.used
        /\ usage.free + usage.used = quotaBytes
        /\ usage.free \in Uint

\* C5 witness: quota 10 and 15 bytes in the directory give used 10, free 0
ClampFiguresWitness ==
    /\ usage.asked
    /\ ~usage.err
    /\ quotaBytes = 10
    /\ usage.dirUsed = 15
    /\ usage.used = 10
    /\ usage.free = 0

\* a character of a namespace prefix in XML
XmlPrefixChar == NsClass \cup {"-", "."}

\* s declares at i a prefix, ending at j-1, bound to "DAV:"
DeclaresDav(s, i, j) ==
    /\ HasAt(s, i, <<"x", "m", "l", "n", "s", ":">>)
    /\ j > i + 6
    /\ j + 5 <= Len(s)
    /\ \A k \in (i + 6) .. (j - 1) : s[k] \in XmlPrefixChar
    /\ HasAt(s, j, <<"=", "\"", "D", "A", "V", ":", "\"">>)

\* the prefix of the first xmlns:<prefix>="DAV:" declaration of s, or D
DeclaredPrefix(s) ==
    IF \E i, j \in 1 .. Len(s) : DeclaresDav(s, i, j)
    THEN LET i == CHOOSE i \in 1 .. Len(s) :
                     /\ \E j \in 1 .. Len(s) : DeclaresDav(s, i, j)
                     /\ \A h \in 1 .. (i - 1) : \A j \in 1 .. Len(s) : ~DeclaresDav(s, h, j)
             j == CHOOSE j \in 1 .. Len(s) : DeclaresDav(s, i, j)
         IN  SubSeq(s, i + 6, j - 1)
    ELSE <<"D">>

\* C6 as claimed: the injected elements carry the prefix of the body's first
\* xmlns:<prefix>="DAV:" declaration, or D when it has none.
PrefixOfFirstDeclaration ==
    (MultiStatusDone /\ usage.asked /\ ~usage.err /\ propEndRegex(eng.out.body) # 0) =>
        w.body = Splice(eng.out.body, propEndRegex(eng.out.body),
                        quotaXML(DeclaredPrefix(eng.out.body), usage.free, usage.used))

\* C7: when the Usage Provider fails, a PROPFIND on "/" with captured status
\* 207 is still answered 207 with the engine's body unchanged.
FailOpen ==
    (MultiStatusDone /\ usage.asked /\ usage.err) =>
        /\ w.status = 207
        /\ w.body = eng.out.body

\* C7 witness: the provider failed on a body that has a closing prop tag
FailOpenWitness ==
    /\ MultiStatusDone
    /\ usage.asked
    /\ usage.err
    /\ propEndRegex(eng.out.body) # 0
    /\ w.status = 207

\* C14: with quotaBytes = 0 the figures of a 207 PROPFIND on "/" are the
\* (free, used) pair getDiskUsage returned, whatever the directory scan
\* would have answered, and they are the figures written into the body.
NoQuotaUsesDiskUsage ==
    (MultiStatusDone /\ usage.asked /\ quotaBytes = 0) =>
        /\ usage.free = usage.disk.free
        /\ usage.used = usage.disk.used
        /\ usage.err = usage.disk.err
        /\ ~usage.disk.err =>
              InsertedBeforeFirst(eng.out.body, w.body,
                  quotaXML(nsPrefix(eng.out.body), usage.disk.free, usage.disk.used),
                  PropClass)

\* C14 witness: without a quota, a body with a closing prop tag was rewritten
\* while the directory scan would have answered less than the disk is using
NoQuotaUsesDiskUsageWitness ==
    /\ MultiStatusDone
    /\ usage.asked
    /\ quotaBytes = 0
    /\ ~usage.disk.err
    /\ usage.dirUsed < usage.disk.used
    /\ propEndRegex(eng.out.body) # 0
    /\ Len(w.body) > Len(eng.out.body)

(***************************************************************************)
(* Properties of the credential store.                                     *)
(***************************************************************************)
\* C8 as claimed: Add of a username that is not present succeeds for every
\* password p, after which Authenticate accepts p and rejects p followed by
\* "x"; a username that is not in the store authenticates with no password.
AddThenAuthenticate ==
    /\ (op.name = "Add" /\ op.username \notin DOMAIN before) =>
          /\ op.err = "nil"
          /\ Authenticate(users, op.username, op.password)
          /\ ~Authenticate(users, op.username, op.password \o <<120>>)
    /\ \A u \in StoreNames \ DOMAIN users : \A p \in Passwords :
          ~Authenticate(users, u, p)

\* C9: an Add that returns an error leaves the mapping as it was.
FailedAddChangesNothing ==
    (op.name = "Add" /\ op.err # "nil") => users = before

\* C9 witness: Add was refused for a username that is present, with a
\* password other than the one on record
FailedAddChangesNothingWitness ==
    /\ op.name = "Add"
    /\ op.err = "exists"
    /\ ~Authenticate(users, op.username, op.password)

\* C10 as claimed: a fresh store built from the file a successful Save wrote
\* holds the usernames and password hashes of the store that was saved.
SaveLoadRoundTrip ==
    (op.name = "NewStore" /\ op.afterSave) =>
        /\ op.err = "nil"
        /\ users = before

\* the mapping after a Delete of op.username: that key gone, every other
\* entry as it was
DeletedFrom(old, new, username) ==
    /\ DOMAIN new = DOMAIN old \ {username}
    /\ \A x \in DOMAIN new : new[x] = old[x]

\* C11: Delete(u) removes u and leaves every other entry unchanged, reports
\* no error, leaves the mapping as it was when u is not present, and a
\* second Delete(u) right after a first changes nothing.
DeleteRemovesOnlyThat ==
    /\ [](op.name = "Delete" =>
            /\ op.err = "nil"
            /\ DeletedFrom(before, users, op.username)
            /\ (op.username \notin DOMAIN before => users = before))
    /\ [][(op.name = "Delete" /\ op'.name = "Delete"
            /\ op'.username = op.username) => users' = users]_vars

\* C11 witness: a Delete removed a username that was present and left
\* another entry in the mapping
DeleteRemovesOnlyThatWitness ==
    /\ op.name = "Delete"
    /\ op.username \in DOMAIN before
    /\ users # EmptyStore

(***************************************************************************)
(* Properties of the running server's use of the store.                    *)
(***************************************************************************)
\* C13: while the server handles requests, the in-memory mapping and the
\* credential file stay what they were when the store was loaded at startup.
ServerNeverMutatesStore ==
    /\ users = ServerStore
    /\ file = MarshalIndent(ServerStore)

\* C13 witness: a request naming a stored user with a wrong password has
\* been rejected by Authenticate
ServerNeverMutatesStoreWitness ==
    /\ pc = "done"
    /\ ran.auth = "rejected"
    /\ req.auth.username \in DOMAIN ServerStore

(***************************************************************************)
(* Properties of persistence.                                              *)
(***************************************************************************)
\* C15: Add, Delete, Authenticate and List never write the credential file;
\* the file changes only in a step that is a Save call.
FileChangesOnlyInSave ==
    [][file' # file => op'.name = "Save"]_vars

\* C15 witness: an Add succeeded and the file does not hold the new mapping
FileChangesOnlyInSaveWitness ==
    /\ op.name = "Add"
    /\ op.err = "nil"
    /\ file # MarshalIndent(users)
    /\ file # NoFile

(***************************************************************************)
(* Properties of the store shared by goroutines.                           *)
(***************************************************************************)
\* the goroutine is between the return of Lock/RLock and the deferred unlock
InCritical(t) == thr[t].at \notin {"idle", "wait"}

\* the goroutine is inside a method that modifies the map
IsWriter(t) == thr[t].op \in {"Add", "Delete", "load"}

\* the goroutine is reading the map
Observing(t) == thr[t].at \in {"lookup", "range", "marshal"}

\* C12: while Add, Delete or load is inside its critical section no other
\* method is inside its own, and no Authenticate, List or Save reads the map
\* while an assignment to it is part-way through.
LockDiscipline ==
    /\ \A t, o \in Threads :
          (t # o /\ IsWriter(t) /\ InCritical(t)) => ~InCritical(o)
    /\ \A t, o \in Threads :
          (thr[t].at = "writing") => ~Observing(o)

\* C12 witness: an Authenticate and a Save are inside their critical sections
\* at the same time while an Add waits for the lock
LockDisciplineWitness ==
    \E t, o, x \in Threads :
        /\ thr[t].op = "Authenticate" /\ thr[t].at = "lookup"
        /\ thr[o].op = "Save" /\ thr[o].at = "write"
        /\ thr[x].op = "Add" /\ thr[x].at = "wait"

\* the goroutine is performing a file-system action
AtIO(t) == thr[t].at \in {"readfile", "mkdir", "open", "write"}

\* the goroutine holds the read lock or the write lock
HoldsLock(t) == (mu.writer = t /\ mu.held) \/ t \in mu.readers

\* C16 as claimed: a goroutine performing a file-system action in load or
\* Save holds neither the read lock nor the write lock.
NoLockAcrossIO ==
    \A t \in Threads : AtIO(t) => ~HoldsLock(t)

\* C18 as claimed: in the step in which a Save returns without error, the
\* file holds the serialization of the mapping as it is then.
SaveReturnsWithFileCurrent ==
    [][\A t \in Threads :
          (thr[t].op = "Save" /\ thr[t].at = "unlock" /\ thr'[t].at = "idle"
           /\ thr[t].ret = "nil")
          => file' = MarshalIndent(users')]_vars

(***************************************************************************)
(* Properties of the directory usage.                                      *)
(***************************************************************************)
\* the sizes of the regular files that can be reached and read under a node
RECURSIVE RegularFileBytes(_)
RECURSIVE RegularFileBytesOf(_, _)
RegularFileBytes(node) ==
    CASE node.fault # "none" -> 0
      [] node.kind = "file" -> node.size
      [] node.kind = "dir" -> RegularFileBytesOf(node.children, 1)
      [] OTHER -> 0

RegularFileBytesOf(entries, i) ==
    IF i > Len(entries) THEN 0
    ELSE RegularFileBytes(entries[i]) + RegularFileBytesOf(entries, i + 1)

\* the root itself cannot be accessed: it does not exist or cannot be read
RootInaccessible(root) == root.lstat # "none" \/ root.fault # "none"

\* C17 as claimed: the walk returns an error exactly when the root cannot be
\* accessed; otherwise it returns the sum of the sizes of the regular files
\* under the root, an entry that fails contributing zero.
DirUsageSkipsEntryErrors ==
    fs.asked =>
        /\ fs.err = RootInaccessible(fs.tree)
        /\ ~RootInaccessible(fs.tree) =>
              fs.total = RegularFileBytes(fs.tree) % UintMod

(***************************************************************************)
(* Properties of the user-management commands.                             *)
(***************************************************************************)
\* the usernames a reader of the file finds in it
FileUsernames == IF file.kind = "json" THEN DOMAIN loadUsers(file, EmptyStore) ELSE {}

\* C19 as claimed: when both commands have reported success, the file holds
\* every user added by one of them and no user removed by one of them.
NoLostUpdate ==
    (\A p \in Procs : cli[p].at = "ok") =>
        /\ file.kind = "json"
        /\ \A p \in Procs :
              IF cli[p].cmd = "add"
              THEN cli[p].username \in FileUsernames
              ELSE cli[p].username \notin FileUsernames

(***************************************************************************)
(* Properties of a store loaded from any JSON object.                      *)
(***************************************************************************)
\* C20 as claimed: every value of the mapping is a record that is present
\* and carries the username it is stored under, and no Authenticate, List
\* or Save has faulted.
StoreWellFormed ==
    /\ \A k \in DOMAIN users : users[k] # NilUser /\ users[k].username = k
    /\ op.err # "panic"
====
